---- MODULE Spec2Model ----
(***************************************************************************)
(* A model of minecraft_mods_report_to_excel.py: main() checks the input   *)
(* path, loads instance.json, build_rows() flattens every mod entry into a *)
(* row record and collects the category set, and write_excel() lays the    *)
(* rows out in a worksheet and saves it.                                    *)
(*                                                                         *)
(* Data representation.                                                    *)
(*   - An Optional value is a sequence of length at most one: None is <<>> *)
(*     and the value v is <<v>>.  A JSON null and a missing key both read  *)
(*     as None through dict.get.                                           *)
(*   - A dict is a function over its keys (EmptyDict has no key).          *)
(*   - Text is a TLA+ string.  Category tags are strings too; Codes gives  *)
(*     the code points of each tag so that str.lower and the ordering of   *)
(*     strings are computed on characters.                                 *)
(*   - The text of an "updated" field is the sequence of its lexical parts *)
(*     (<<"2024-03-01T10:00:00", "Z">> is "2024-03-01T10:00:00Z"); a final *)
(*     "Z" is always a part of its own, so endswith("Z") and value[:-1]    *)
(*     are computed on the parts.  The empty text is <<>>.                 *)
(*   - A datetime is a number of hours since 0001-01-01T00:00, within      *)
(*     DatetimeMin..DatetimeMax, with an optional UTC offset in hours.     *)
(***************************************************************************)
EXTENDS Integers, Sequences, FiniteSets, TLC

VARIABLES
    instance_file,   \* the file at instance_path: None, or the parsed JSON document
    tz,              \* UTC offset (hours) of the local time zone of the process
    pc,              \* position of main() in the current run
    run,             \* number of the current run of the tool
    mods,            \* main's local variable mods
    output_path,     \* main's local variable output_path
    rows,            \* the row records returned by build_rows
    categories,      \* the category set returned by build_rows
    console,         \* lines printed by the current run
    exit_status,     \* exit status of the current run (None while it runs)
    uncaught,        \* the exception that ended the current run, or None
    saved            \* every wb.save() so far: [run, path, wb]

vars == <<instance_file, tz, pc, run, mods, output_path, rows, categories,
          console, exit_status, uncaught, saved>>

----------------------------------------------------------------------------
(* Bounds of the model *)

MaxMods == 2

MaxRuns == 2

----------------------------------------------------------------------------
(* Python values *)

None == <<>>

Some(v) == <<v>>

EmptyDict == <<>>

\* dict.get(key): the value, or None when the key is missing
Get(d, key) == IF key \in DOMAIN d THEN d[key] ELSE None

\* truthiness of an Optional[str]
TruthyStr(o) == o # None /\ o[1] # ""

\* truthiness of an Optional[dict]
TruthyDict(o) == o # None /\ DOMAIN o[1] # {}

\* truthiness of an Optional[list] and of an Optional text given by its parts
TruthySeq(o) == o # None /\ Len(o[1]) > 0

\* a or b, on Optional[str]
OrStr(a, b) == IF TruthyStr(a) THEN a ELSE b

----------------------------------------------------------------------------
(* Module constants, lines 18-31 *)

HEADERS == <<"Mod Name", "Description", "Detail", "Category", "Links",
             "File Name", "Updated At">>

CATEGORIES_COL_INDEX == 11

DATA_ROW_HEIGHT == 15

----------------------------------------------------------------------------
(* datetime *)

DatetimeMin == 0

DatetimeMax == 87649415

\* date and time texts datetime.fromisoformat reads, with their hour count
DateTimes ==
    ( "0001-01-01T00:00:00" :> DatetimeMin @@
      "2024-03-01T10:00:00" :> 17734690 @@
      "9999-12-31T23:00:00" :> DatetimeMax )

\* UTC offset texts datetime.fromisoformat reads, with their hours
Offsets == ( "+00:00" :> 0 @@ "+05:00" :> 5 @@ "-05:00" :> (0 - 5) )

\* datetime.fromisoformat(parts): a datetime, or ValueError
fromisoformat(parts) ==
    IF Len(parts) = 1 /\ parts[1] \in DOMAIN DateTimes
    THEN [raised |-> None, t |-> DateTimes[parts[1]], tzinfo |-> None]
    ELSE IF /\ Len(parts) = 2
            /\ parts[1] \in DOMAIN DateTimes
            /\ parts[2] \in DOMAIN Offsets
    THEN [raised |-> None, t |-> DateTimes[parts[1]],
          tzinfo |-> Some(Offsets[parts[2]])]
    ELSE [raised |-> Some("ValueError"), t |-> 0, tzinfo |-> None]

\* parsed.astimezone().replace(tzinfo=None) of an aware datetime: the time is
\* first taken to UTC, then to the local zone; either step raises
\* OverflowError when it leaves the datetime range
astimezone_naive(parsed, local) ==
    LET utc == parsed.t - parsed.tzinfo[1]
        loc == utc + local
    IN  IF utc < DatetimeMin \/ utc > DatetimeMax
           \/ loc < DatetimeMin \/ loc > DatetimeMax
        THEN [raised |-> Some("OverflowError"), t |-> 0, tzinfo |-> None]
        ELSE [raised |-> None, t |-> loc, tzinfo |-> None]

\* the try block of iso_to_datetime, lines 51-55: the naive datetime, or the
\* exception raised in it
iso_try(v, local) ==
    LET normalized == IF v[Len(v)] = "Z"
                      THEN SubSeq(v, 1, Len(v) - 1) \o <<"+00:00">>
                      ELSE v
        parsed == fromisoformat(normalized)
    IN  IF parsed.raised # None THEN parsed
        ELSE IF parsed.tzinfo # None THEN astimezone_naive(parsed, local)
        ELSE parsed

\* iso_to_datetime(value), lines 47-57.  The result is
\*   [raised |-> None, dt |-> None]       the function returned None
\*   [raised |-> None, dt |-> <<t>>]      it returned the naive datetime t
\*   [raised |-> <<e>>, dt |-> None]      the exception e left the function
iso_to_datetime(value, local) ==
    IF ~TruthySeq(value)
    THEN [raised |-> None, dt |-> None]
    ELSE LET tried == iso_try(value[1], local)
         IN  IF tried.raised = None
             THEN [raised |-> None, dt |-> Some(tried.t)]
             ELSE IF tried.raised = Some("ValueError")
             THEN [raised |-> None, dt |-> None]
             ELSE [raised |-> tried.raised, dt |-> None]

----------------------------------------------------------------------------
(* Row Builder *)

\* modrinth_link with the id tried before the slug
modrinth_link_id_first(project) ==
    LET slug == OrStr(Get(project, "id"), Get(project, "slug"))
    IN  IF ~TruthyStr(slug)
        THEN None
        ELSE Some("https://modrinth.com/mod/" \o slug[1])

\* modrinth_link(project), lines 60-64
modrinth_link(project) ==
    LET slug == OrStr(Get(project, "slug"), Get(project, "id"))
    IN  IF ~TruthyStr(slug)
        THEN None
        ELSE Some("https://modrinth.com/mod/" \o slug[1])

\* mod_display_name with the entry's name tried before the project's title
mod_display_name_name_first(mod, project) ==
    IF TruthyDict(project)
    THEN OrStr(OrStr(OrStr(Get(mod, "name"), Get(project[1], "title")),
                     Get(mod, "file")), Some(""))[1]
    ELSE OrStr(OrStr(Get(mod, "name"), Get(mod, "file")), Some(""))[1]

\* mod_display_name(mod, project), lines 67-70
mod_display_name(mod, project) ==
    IF TruthyDict(project)
    THEN OrStr(OrStr(OrStr(Get(project[1], "title"), Get(mod, "name")),
                     Get(mod, "file")), Some(""))[1]
    ELSE OrStr(OrStr(Get(mod, "name"), Get(mod, "file")), Some(""))[1]

\* the code points of the category tags of the model
Codes(tag) ==
    CASE tag = "A" -> <<65>>
      [] tag = "a" -> <<97>>
      [] tag = "B" -> <<66>>
      [] tag = "ab" -> <<97, 98>>

\* ";".join of a list of strings, line 84
RECURSIVE join(_)
join(strs) ==
    IF Len(strs) = 0 THEN ""
    ELSE IF Len(strs) = 1 THEN strs[1]
    ELSE strs[1] \o ";" \o join(Tail(strs))

\* [c for c in category_list if c], line 84
RECURSIVE non_empty(_)
non_empty(category_list) ==
    IF Len(category_list) = 0 THEN <<>>
    ELSE IF TruthyStr(category_list[1])
         THEN <<category_list[1][1]>> \o non_empty(Tail(category_list))
         ELSE non_empty(Tail(category_list))

\* add_categories that stops after the first entry of the list
add_categories_first(cats, category_list) ==
    IF Len(category_list) > 0 /\ TruthyStr(category_list[1])
    THEN cats \cup {category_list[1][1]}
    ELSE cats

\* for cat in category_list: if cat: categories.add(cat), lines 85-87
RECURSIVE add_categories(_, _)
add_categories(cats, category_list) ==
    IF Len(category_list) = 0 THEN cats
    ELSE add_categories(
             IF TruthyStr(category_list[1])
             THEN cats \cup {category_list[1][1]}
             ELSE cats,
             Tail(category_list))

\* the category string of a project, lines 83-84
category_of(project) ==
    LET got == Get(project, "categories")
        category_list == IF TruthySeq(got) THEN got[1] ELSE <<>>
    IN  join(non_empty(category_list))

\* the fields of a mod that has a project, lines 81-90
project_fields(project) ==
    LET link_url == modrinth_link(project)
    IN  [description |-> OrStr(Get(project, "description"), Some(""))[1],
         detail |-> OrStr(Get(project, "body"), Some(""))[1],
         category |-> category_of(project),
         link_url |-> link_url,
         link_text |-> IF TruthyStr(link_url) THEN "Modrinth" ELSE "",
         updated_raw |-> Get(project, "updated")]

\* missing_fields with the label of the other branch
missing_fields_unlabelled ==
    [description |-> "No Modrinth source available (untrusted source)",
     detail |-> "",
     category |-> "",
     link_url |-> None,
     link_text |-> "",
     updated_raw |-> None]

\* the fields of a mod that has no project, lines 79 and 92-96
missing_fields ==
    [description |-> "No Modrinth source available (untrusted source)",
     detail |-> "",
     category |-> "",
     link_url |-> None,
     link_text |-> "No Modrinth",
     updated_raw |-> None]

\* the body of the loop of build_rows, lines 78-112: the row record of one
\* mod, or the exception iso_to_datetime let through
build_row(mod, local) ==
    LET project == Get(mod, "modrinthProject")
        f == IF TruthyDict(project) THEN project_fields(project[1])
             ELSE missing_fields
        updated == iso_to_datetime(f.updated_raw, local)
        \* a datetime is always true, so line 99 keeps every parsed value
        updated_value ==
            IF updated.dt # None
            THEN [type |-> "datetime", value |-> updated.dt[1]]
            ELSE [type |-> "str",
                  value |-> IF TruthySeq(f.updated_raw) THEN f.updated_raw[1]
                            ELSE <<>>]
    IN  [raised |-> updated.raised,
         row |-> ( "Mod Name" :> mod_display_name(mod, project) @@
                   "Description" :> f.description @@
                   "Detail" :> f.detail @@
                   "Category" :> f.category @@
                   "Links" :> f.link_text @@
                   "Links_url" :> f.link_url @@
                   "File Name" :> OrStr(Get(mod, "file"), Some(""))[1] @@
                   "Updated At" :> updated_value )]

\* the categories one mod adds to the running set, lines 78-87
row_categories(cats, mod) ==
    LET project == Get(mod, "modrinthProject")
        got == IF TruthyDict(project) THEN Get(project[1], "categories")
               ELSE None
    IN  add_categories(cats, IF TruthySeq(got) THEN got[1] ELSE <<>>)

\* build_rows(mods, mods_dir), lines 73-114, from the i-th mod on: the rows and
\* the category set, or the exception that ended the loop
RECURSIVE build_rows_from(_, _, _, _, _)
build_rows_from(ms, i, rs, cats, local) ==
    IF i > Len(ms)
    THEN [raised |-> None, rows |-> rs, categories |-> cats]
    ELSE LET built == build_row(ms[i], local)
         IN  IF built.raised # None
             THEN [raised |-> built.raised, rows |-> rs, categories |-> cats]
             ELSE build_rows_from(ms, i + 1, Append(rs, built.row),
                                  row_categories(cats, ms[i]), local)

\* build_rows that passes over the mods without project
build_rows_enriched_only(ms, local) ==
    LET enriched(mod) == TruthyDict(Get(mod, "modrinthProject"))
    IN  build_rows_from(SelectSeq(ms, enriched), 1, <<>>, {}, local)

build_rows(ms, local) == build_rows_from(ms, 1, <<>>, {}, local)

----------------------------------------------------------------------------
(* Report Writer *)

\* openpyxl.utils.get_column_letter, for the columns the sheet uses
get_column_letter(idx) ==
    <<"A", "B", "C", "D", "E", "F", "G", "H", "I", "J", "K", "L">>[idx]

\* str.lower on code points
lower(codes) ==
    [i \in DOMAIN codes |->
        IF codes[i] >= 65 /\ codes[i] <= 90 THEN codes[i] + 32 ELSE codes[i]]

\* the sort key without str.lower
sort_key_case_sensitive(tag) == Codes(tag)

\* the sort key of line 171: key=str.lower
sort_key(tag) == lower(Codes(tag))

\* a < b on strings, by code points
RECURSIVE str_less(_, _)
str_less(a, b) ==
    IF Len(b) = 0 THEN FALSE
    ELSE IF Len(a) = 0 THEN TRUE
    ELSE IF a[1] # b[1] THEN a[1] < b[1]
    ELSE str_less(Tail(a), Tail(b))

\* one element put into a sorted list, behind the elements whose key is not
\* greater than its own (the sort is stable)
RECURSIVE insert_sorted(_, _)
insert_sorted(sorted_list, x) ==
    IF Len(sorted_list) = 0 THEN <<x>>
    ELSE IF str_less(sort_key(x), sort_key(sorted_list[1]))
         THEN <<x>> \o sorted_list
         ELSE <<sorted_list[1]>> \o insert_sorted(Tail(sorted_list), x)

\* sorted(iterable, key=str.lower), line 171, of the elements in the order
\* the iteration yields them
RECURSIVE sorted_from(_, _)
sorted_from(done, iteration) ==
    IF Len(iteration) = 0 THEN done
    ELSE sorted_from(insert_sorted(done, iteration[1]), Tail(iteration))

sorted(iteration) == sorted_from(<<>>, iteration)

\* the orders in which a set of strings may be iterated: the order follows
\* the hashes of the strings, which differ from process to process
IterationOrders(set) ==
    {order \in [1..Cardinality(set) -> set] :
        \A i, j \in 1..Cardinality(set) : i # j => order[i] # order[j]}

\* Workbook(), ws = wb.active, title and freeze_panes, lines 120-123
new_sheet(sheet_name) ==
    [title |-> sheet_name, freeze_panes |-> "A2", cells |-> <<>>,
     hyperlink |-> <<>>, style |-> <<>>, number_format |-> <<>>,
     alignment |-> <<>>, row_height |-> <<>>, column_width |-> <<>>,
     tables |-> <<>>]

\* ws.cell(row, column, value)
set_cell(ws, row, column, value) ==
    [ws EXCEPT !.cells = (<<row, column>> :> value) @@ @]

\* the header row, lines 126-127
RECURSIVE write_headers(_, _)
write_headers(ws, col_idx) ==
    IF col_idx > Len(HEADERS) THEN ws
    ELSE write_headers(set_cell(ws, 1, col_idx, HEADERS[col_idx]), col_idx + 1)

\* one cell of a data row, lines 134-145
write_data_cell(ws, row_idx, row, col_idx) ==
    LET header == HEADERS[col_idx]
        value == IF header \in DOMAIN row THEN row[header] ELSE ""
        at == <<row_idx, col_idx>>
        w1 == set_cell(ws, row_idx, col_idx, value)
        w2 == IF header = "Links" /\ TruthyStr(Get(row, "Links_url"))
              THEN [w1 EXCEPT !.hyperlink = (at :> row["Links_url"][1]) @@ @,
                              !.style = (at :> "Hyperlink") @@ @]
              ELSE w1
        w3 == IF header = "Updated At" /\ value.type = "datetime"
              THEN [w2 EXCEPT !.number_format =
                                  (at :> "yyyy-mm-dd hh:mm:ss") @@ @]
              ELSE w2
    IN  IF header \in {"Description", "Detail", "Category"}
        THEN [w3 EXCEPT !.alignment =
                            (at :> [wrap_text |-> TRUE, vertical |-> "top"]) @@ @]
        ELSE w3

\* the cells of one data row, lines 133-145
RECURSIVE write_data_row(_, _, _, _)
write_data_row(ws, row_idx, row, col_idx) ==
    IF col_idx > Len(HEADERS) THEN ws
    ELSE write_data_row(write_data_cell(ws, row_idx, row, col_idx),
                        row_idx, row, col_idx + 1)

\* the data rows, lines 132-146, from the i-th row record on
RECURSIVE write_data_rows(_, _, _)
write_data_rows(ws, rs, i) ==
    IF i > Len(rs) THEN ws
    ELSE LET row_idx == i + 1
             w == write_data_row(ws, row_idx, rs[i], 1)
         IN  write_data_rows(
                 [w EXCEPT !.row_height = (row_idx :> DATA_ROW_HEIGHT) @@ @],
                 rs, i + 1)

\* add_table without the test of line 149
add_table_unguarded(ws, rs) ==
    [ws EXCEPT !.tables = Append(@,
        [displayName |-> "ModsTable",
         ref |-> [first |-> "A1",
                  last_column |-> get_column_letter(Len(HEADERS)),
                  last_row |-> 1 + Len(rs)],
         style |-> [name |-> "TableStyleMedium9",
                    showFirstColumn |-> FALSE, showLastColumn |-> FALSE,
                    showRowStripes |-> TRUE,
                    showColumnStripes |-> FALSE]])]

\* the table over the header and the data rows, lines 149-161
add_table(ws, rs) ==
    IF Len(rs) > 0
    THEN [ws EXCEPT !.tables = Append(@,
             [displayName |-> "ModsTable",
              ref |-> [first |-> "A1",
                       last_column |-> get_column_letter(Len(HEADERS)),
                       last_row |-> 1 + Len(rs)],
              style |-> [name |-> "TableStyleMedium9",
                         showFirstColumn |-> FALSE, showLastColumn |-> FALSE,
                         showRowStripes |-> TRUE,
                         showColumnStripes |-> FALSE]])]
    ELSE ws

\* the column widths, lines 164-166
RECURSIVE set_widths(_, _, _)
set_widths(ws, widths, idx) ==
    IF idx > Len(widths) THEN ws
    ELSE set_widths(
             [ws EXCEPT !.column_width =
                            (get_column_letter(idx) :> widths[idx]) @@ @],
             widths, idx + 1)

\* the cells of the category list, lines 171-172
RECURSIVE write_categories(_, _, _)
write_categories(ws, sorted_categories, i) ==
    IF i > Len(sorted_categories) THEN ws
    ELSE write_categories(
             set_cell(ws, i + 1, CATEGORIES_COL_INDEX, sorted_categories[i]),
             sorted_categories, i + 1)

\* the category list beside the table, lines 169-173
write_category_list(ws, iteration) ==
    LET w1 == set_cell(ws, 1, CATEGORIES_COL_INDEX, "Categorias")
        w2 == write_categories(w1, sorted(iteration), 1)
    IN  [w2 EXCEPT !.column_width =
                       (get_column_letter(CATEGORIES_COL_INDEX) :> 25) @@ @]

\* write_excel(output_path, rows, categories), lines 117-175: the worksheet
\* that is saved, when iterating the category set yields `iteration`
write_excel(rs, iteration) ==
    LET w1 == write_headers(new_sheet("Mods"), 1)
        w2 == write_data_rows(w1, rs, 1)
        w3 == add_table(w2, rs)
        w4 == set_widths(w3, <<30, 50, 60, 30, 15, 40, 20>>, 1)
    IN  write_category_list(w4, iteration)

----------------------------------------------------------------------------
(* The inputs of the model *)

\* the offsets of the local time zones the tool is run in
LocalOffsets == {0 - 5, 0}

Strs(s) == {None, Some(""), Some(s)}

\* an enrichment project with every field set
FullProject ==
    [title |-> Some("T"), description |-> Some("d"), body |-> Some("b"),
     categories |-> Some(<<>>), slug |-> Some("s"), id |-> Some("i"),
     updated |-> None]

ModWith(project) ==
    [name |-> Some("N"), file |-> Some("F"), modrinthProject |-> Some(project)]

\* mods that differ in the sources of the display name
NameMods ==
    {[name |-> n, file |-> f, modrinthProject |-> None] :
        n \in Strs("N"), f \in {None, Some("F")}}
    \cup {[name |-> None, file |-> Some("")]}
    \cup {[name |-> Some("N"), file |-> Some("F"),
           modrinthProject |-> Some([FullProject EXCEPT !.title = t])] :
        t \in Strs("T")}
    \cup {[name |-> n, file |-> Some("F"),
           modrinthProject |-> Some([description |-> None, body |-> Some("")])] :
        n \in {None, Some("")}}
    \cup {[name |-> None, file |-> None,
           modrinthProject |-> Some([title |-> Some("")])],
          [name |-> Some("N"), file |-> Some("F"),
           modrinthProject |-> Some(EmptyDict)],
          EmptyDict}

\* mods that differ in slug and id
LinkMods ==
    {ModWith([FullProject EXCEPT !.slug = s, !.id = i]) :
        s \in Strs("s"), i \in {None, Some("i")}}
    \cup {ModWith([FullProject EXCEPT !.slug = None, !.id = Some("")])}

\* mods that differ in the category list
CategoryMods ==
    {ModWith([FullProject EXCEPT !.categories = c]) :
        c \in {None,
               Some(<<Some("a")>>), Some(<<Some("A")>>),
               Some(<<Some("B"), Some("a")>>),
               Some(<<Some("ab"), Some("A")>>),
               Some(<<Some("a"), Some("a")>>),
               Some(<<None, Some("B"), Some("")>>)}}

\* mods that differ in the updated field
UpdatedMods ==
    {ModWith([FullProject EXCEPT !.updated = Some(u)]) :
        u \in {<<>>,
               <<"not-a-date">>,
               <<"not-a-date", "Z">>,
               <<"2024-03-01T10:00:00">>,
               <<"2024-03-01T10:00:00", "Z">>,
               <<"2024-03-01T10:00:00", "+05:00">>,
               <<"0001-01-01T00:00:00", "Z">>,
               <<"9999-12-31T23:00:00", "-05:00">>}}

Mods == NameMods \cup LinkMods \cup CategoryMods \cup UpdatedMods

ModLists == UNION {[1..n -> Mods] : n \in 0..MaxMods}

\* the instance.json documents of the model
Instances ==
    {[launcher |-> [mods |-> ms, version |-> Some("1.2")]] : ms \in ModLists}
    \cup {EmptyDict,
          [launcher |-> EmptyDict],
          [launcher |-> [version |-> Some("")]]}

instance_path == "/instances/pack/instance.json"

instance_dir == "/instances/pack"

----------------------------------------------------------------------------
(* main(), lines 178-198, run after run *)

Init ==
    /\ instance_file \in {None} \cup {Some(i) : i \in Instances}
    /\ tz \in LocalOffsets
    /\ pc = "main"
    /\ run = 1
    /\ mods = <<>>
    /\ output_path = None
    /\ rows = <<>>
    /\ categories = {}
    /\ console = <<>>
    /\ exit_status = None
    /\ uncaught = None
    /\ saved = <<>>

\* FileNotFound that reports the missing path and returns 0
FileNotFound_status_0 ==
    /\ pc = "main"
    /\ instance_file = None
    /\ console' = Append(console, "File not found: " \o instance_path)
    /\ exit_status' = Some(0)
    /\ pc' = "exited"
    /\ UNCHANGED <<instance_file, tz, run, mods, output_path, rows, categories,
                   uncaught, saved>>

\* lines 180-183: the path is not a file
FileNotFound ==
    /\ pc = "main"
    /\ instance_file = None
    /\ console' = Append(console, "File not found: " \o instance_path)
    /\ exit_status' = Some(1)
    /\ pc' = "exited"
    /\ UNCHANGED <<instance_file, tz, run, mods, output_path, rows, categories,
                   uncaught, saved>>

\* lines 180-192: the path is a file; load_instance and the locals of main
LoadInstance ==
    /\ pc = "main"
    /\ instance_file # None
    /\ LET instance == instance_file[1]
           launcher == IF "launcher" \in DOMAIN instance
                       THEN instance["launcher"] ELSE EmptyDict
           version == OrStr(Get(launcher, "version"), Some("Unknown"))[1]
       IN  /\ mods' = IF "mods" \in DOMAIN launcher
                      THEN launcher["mods"] ELSE <<>>
           /\ output_path' =
                  Some(instance_dir \o "/Mods " \o version \o ".xlsx")
    /\ pc' = "build_rows"
    /\ UNCHANGED <<instance_file, tz, run, rows, categories, console,
                   exit_status, uncaught, saved>>

\* line 194: build_rows returns
BuildRows ==
    /\ pc = "build_rows"
    /\ LET built == build_rows(mods, tz)
       IN  /\ built.raised = None
           /\ rows' = built.rows
           /\ categories' = built.categories
    /\ pc' = "write_excel"
    /\ UNCHANGED <<instance_file, tz, run, mods, output_path, console,
                   exit_status, uncaught, saved>>

\* line 194: an exception leaves build_rows and main; the interpreter exits
BuildRowsRaises ==
    /\ pc = "build_rows"
    /\ LET built == build_rows(mods, tz)
       IN  /\ built.raised # None
           /\ uncaught' = built.raised
    /\ exit_status' = Some(1)
    /\ pc' = "exited"
    /\ UNCHANGED <<instance_file, tz, run, mods, output_path, rows, categories,
                   console, saved>>

\* lines 195-198: write_excel saves the workbook, main reports and returns 0
WriteExcel ==
    /\ pc = "write_excel"
    /\ \E iteration \in IterationOrders(categories) :
          saved' = Append(saved, [run |-> run, path |-> output_path[1],
                                  ws |-> write_excel(rows, iteration)])
    /\ console' = Append(console, "Excel report generated: " \o output_path[1])
    /\ exit_status' = Some(0)
    /\ pc' = "exited"
    /\ UNCHANGED <<instance_file, tz, run, mods, output_path, rows, categories,
                   uncaught>>

\* the tool is run again on the same input
RunAgain ==
    /\ pc = "exited"
    /\ run < MaxRuns
    /\ run' = run + 1
    /\ pc' = "main"
    /\ mods' = <<>>
    /\ output_path' = None
    /\ rows' = <<>>
    /\ categories' = {}
    /\ console' = <<>>
    /\ exit_status' = None
    /\ uncaught' = None
    /\ UNCHANGED <<instance_file, tz, saved>>

\* one run of the tool
Next ==
    \/ FileNotFound
    \/ LoadInstance
    \/ BuildRows
    \/ BuildRowsRaises
    \/ WriteExcel

Spec == Init /\ [][Next]_vars

\* the tool run up to MaxRuns times on the same input
NextRerun ==
    \/ FileNotFound
    \/ LoadInstance
    \/ BuildRows
    \/ BuildRowsRaises
    \/ WriteExcel
    \/ RunAgain

SpecRerun == Init /\ [][NextRerun]_vars

----------------------------------------------------------------------------
(* Vocabulary of the properties *)

\* the current run ended by saving the report
Finished == pc = "exited" /\ exit_status = Some(0)

\* the worksheet the current run saved
Sheet == saved[Len(saved)].ws

Cell(r, c) == Sheet.cells[<<r, c>>]

\* the sheet rows that hold a cell of column c
RowsOfColumn(c) == {at[1] : at \in {a \in DOMAIN Sheet.cells : a[2] = c}}

\* a field of a JSON object that is there and is neither null nor ""
Present(d, key) == key \in DOMAIN d /\ d[key] # None /\ d[key] # Some("")

\* the mod entry carries an enrichment project (a non-empty object)
HasProject(mod) ==
    /\ "modrinthProject" \in DOMAIN mod
    /\ mod["modrinthProject"] # None
    /\ DOMAIN mod["modrinthProject"][1] # {}

ProjectOf(mod) == mod["modrinthProject"][1]

\* the categories list of a mod entry (empty when there is none)
CategoryList(mod) ==
    IF /\ HasProject(mod)
       /\ "categories" \in DOMAIN ProjectOf(mod)
       /\ ProjectOf(mod)["categories"] # None
    THEN ProjectOf(mod)["categories"][1]
    ELSE <<>>

IsTag(entry) == entry # None /\ entry # Some("")

\* the non-empty tags of a mod entry, as a set and in list order
Tags(mod) ==
    {CategoryList(mod)[k][1] :
        k \in {k \in 1..Len(CategoryList(mod)) : IsTag(CategoryList(mod)[k])}}

TagSeq(mod) ==
    LET kept == SelectSeq(CategoryList(mod), IsTag)
    IN  [k \in 1..Len(kept) |-> kept[k][1]]

\* the tags of every mod entry but the i-th
TagsButOf(i) == UNION {Tags(mods[j]) : j \in (1..Len(mods)) \ {i}}

AllTags == UNION {Tags(mods[j]) : j \in 1..Len(mods)}

\* the tags with their letters in lower case, as code points
CaseFolded(tag) ==
    CASE tag \in {"A", "a"} -> <<97>>
      [] tag = "B" -> <<98>>
      [] tag = "ab" -> <<97, 98>>

\* a <= b in the order of strings
StrLeq(a, b) ==
    \/ Len(a) <= Len(b) /\ \A k \in 1..Len(a) : a[k] = b[k]
    \/ \E k \in 1..Len(a) :
          /\ k <= Len(b)
          /\ \A j \in 1..(k - 1) : a[j] = b[j]
          /\ a[k] < b[k]

\* the updated text of a mod entry: None when absent, null or without project
UpdatedOf(mod) ==
    IF HasProject(mod) /\ "updated" \in DOMAIN ProjectOf(mod)
    THEN ProjectOf(mod)["updated"]
    ELSE None

\* the updated text is there and reads as an ISO timestamp, a final Z as UTC
ParsesAsIso(u) ==
    /\ u # None
    /\ u[1] # <<>>
    /\ \/ /\ Len(u[1]) = 1
          /\ u[1][1] \in DOMAIN DateTimes
       \/ /\ Len(u[1]) = 2
          /\ u[1][1] \in DOMAIN DateTimes
          /\ u[1][2] \in DOMAIN Offsets \cup {"Z"}

----------------------------------------------------------------------------
(* Properties *)

\* C1: build_rows followed by write_excel writes exactly one data row per mod
\* entry, and sheet row i+1 is the row built from the i-th mod entry: nothing
\* is dropped, merged, duplicated or reordered.
C1_OneRowPerMod ==
    Finished =>
        /\ Len(rows) = Len(mods)
        /\ \A c \in 1..Len(HEADERS) : RowsOfColumn(c) = 1..(1 + Len(mods))
        /\ \A i \in 1..Len(mods) : \A c \in 1..Len(HEADERS) :
              Cell(i + 1, c) = build_row(mods[i], tz).row[HEADERS[c]]

C1_Witness ==
    /\ Finished
    /\ Len(mods) >= 2
    /\ HasProject(mods[1])
    /\ ~HasProject(mods[2])

\* C2: a mod entry without enrichment gets the fixed description, an empty
\* detail, an empty category string, the label "No Modrinth" without URL or
\* hyperlink, an empty Updated At, and adds nothing to the category set.
C2_NoEnrichmentRow ==
    Finished =>
        \A i \in 1..Len(mods) :
            ~HasProject(mods[i]) =>
                /\ Cell(i + 1, 2) =
                       "No Modrinth source available (untrusted source)"
                /\ Cell(i + 1, 3) = ""
                /\ Cell(i + 1, 4) = ""
                /\ Cell(i + 1, 5) = "No Modrinth"
                /\ rows[i]["Links_url"] = None
                /\ <<i + 1, 5>> \notin DOMAIN Sheet.hyperlink
                /\ Cell(i + 1, 7) = [type |-> "str", value |-> <<>>]
                /\ <<i + 1, 7>> \notin DOMAIN Sheet.number_format
                /\ categories = TagsButOf(i)

C2_Witness ==
    /\ Finished
    /\ \E i, j \in 1..Len(mods) :
          /\ ~HasProject(mods[i])
          /\ Tags(mods[j]) # {}

\* C3: for a mod with enrichment and a non-empty categories list, the category
\* string is the ";"-join of its non-empty tags, each of these tags is in the
\* side list exactly once even when other mods repeat it, and no null or
\* empty tag is in either.
C3_TagsJoinedAndListedOnce ==
    Finished =>
        /\ \A i \in 1..Len(mods) :
              (HasProject(mods[i]) /\ Len(CategoryList(mods[i])) > 0) =>
                  /\ Cell(i + 1, 4) = join(TagSeq(mods[i]))
                  /\ \A t \in Tags(mods[i]) :
                        Cardinality({r \in RowsOfColumn(CATEGORIES_COL_INDEX) :
                                        r >= 2 /\ Cell(r, CATEGORIES_COL_INDEX) = t})
                            = 1
        /\ \A r \in RowsOfColumn(CATEGORIES_COL_INDEX) :
              r >= 2 => Cell(r, CATEGORIES_COL_INDEX) \in AllTags

C3_Witness ==
    /\ Finished
    /\ \E i, j \in 1..Len(mods) :
          /\ i # j
          /\ Tags(mods[i]) \cap Tags(mods[j]) # {}
          /\ Cardinality(Tags(mods[i])) >= 2
    /\ \E k \in 1..Len(mods) :
          \E n \in 1..Len(CategoryList(mods[k])) :
              ~IsTag(CategoryList(mods[k])[n])

\* C4: column 11 holds "Categorias" in row 1 and one cell per distinct
\* category in rows 2..1+|set| without gaps, ascending when letter case is
\* ignored.
C4_CategoryListSorted ==
    Finished =>
        /\ Cell(1, CATEGORIES_COL_INDEX) = "Categorias"
        /\ RowsOfColumn(CATEGORIES_COL_INDEX) = 1..(1 + Cardinality(AllTags))
        /\ {Cell(r, CATEGORIES_COL_INDEX) : r \in 2..(1 + Cardinality(AllTags))}
               = AllTags
        /\ \A r1, r2 \in 2..(1 + Cardinality(AllTags)) :
              r1 < r2 =>
                  StrLeq(CaseFolded(Cell(r1, CATEGORIES_COL_INDEX)),
                         CaseFolded(Cell(r2, CATEGORIES_COL_INDEX)))

C4_Witness ==
    /\ Finished
    /\ {"B", "a", "ab"} \subseteq AllTags

\* C5: two runs on the same unchanged input write the same value into every
\* cell, the order of the category list included.
C5_SameCellsEveryRun ==
    \A i, j \in 1..Len(saved) : saved[i].ws.cells = saved[j].ws.cells

\* C6: when the input path is not a file, main reports the missing path, ends
\* with status 1 before anything is parsed, creates no output file and reaches
\* neither build_rows nor write_excel.
C6_MissingFile ==
    instance_file = None =>
        /\ pc \in {"main", "exited"}
        /\ saved = <<>>
        /\ mods = <<>> /\ output_path = None
        /\ rows = <<>> /\ categories = {}
        /\ uncaught = None
        /\ pc = "exited" =>
              /\ exit_status = Some(1)
              /\ console = <<"File not found: " \o instance_path>>

C6_Witness ==
    /\ instance_file = None
    /\ pc = "exited"

\* C7: a run on an existing file does not abort over a timestamp; the Updated
\* At cell holds a zone-naive timestamp with the format yyyy-mm-dd hh:mm:ss
\* exactly when the updated field is there and reads as an ISO timestamp, and
\* otherwise the raw text (empty when absent) without a date format.
C7_UpdatedAtAsClaimed ==
    (pc = "exited" /\ instance_file # None) =>
        /\ uncaught = None
        /\ Finished
        /\ \A i \in 1..Len(mods) :
              LET u == UpdatedOf(mods[i])
                  at == <<i + 1, 7>>
              IN  IF ParsesAsIso(u)
                  THEN /\ Sheet.cells[at].type = "datetime"
                       /\ at \in DOMAIN Sheet.number_format
                       /\ Sheet.number_format[at] = "yyyy-mm-dd hh:mm:ss"
                  ELSE /\ Sheet.cells[at] =
                              [type |-> "str",
                               value |-> IF u = None THEN <<>> ELSE u[1]]
                       /\ at \notin DOMAIN Sheet.number_format

\* C8: there is a table exactly when there is a row record; it is the only
\* one and spans A1 to column G (the 7th) of row 1+n.  Without mods the sheet
\* holds the header row and "Categorias" alone, and no table.
C8_TableIffRows ==
    Finished =>
        /\ Len(Sheet.tables) = (IF Len(rows) > 0 THEN 1 ELSE 0)
        /\ Len(rows) > 0 =>
              Sheet.tables[1].ref = [first |-> "A1", last_column |-> "G",
                                     last_row |-> 1 + Len(rows)]
        /\ Len(mods) = 0 =>
              /\ DOMAIN Sheet.cells =
                     {<<1, c>> : c \in (1..7) \cup {CATEGORIES_COL_INDEX}}
              /\ \A c \in 1..7 : Cell(1, c) = HEADERS[c]
              /\ Cell(1, CATEGORIES_COL_INDEX) = "Categorias"

C8_Witness ==
    /\ Finished
    /\ Len(mods) = 0
    /\ Sheet.tables = <<>>

\* C9: for a mod with an enrichment project the link URL is
\* https://modrinth.com/mod/{slug} when there is a slug, else .../{id} when
\* there is an id, else none; the label is "Modrinth" with a URL and ""
\* without; the Links cell has a hyperlink, to that URL, exactly when there
\* is a URL.
C9_LinkFromSlugOrId ==
    Finished =>
        \A i \in 1..Len(mods) :
            HasProject(mods[i]) =>
                LET p == ProjectOf(mods[i])
                    at == <<i + 1, 5>>
                    url == IF Present(p, "slug")
                           THEN Some("https://modrinth.com/mod/" \o p["slug"][1])
                           ELSE IF Present(p, "id")
                           THEN Some("https://modrinth.com/mod/" \o p["id"][1])
                           ELSE None
                IN  /\ rows[i]["Links_url"] = url
                    /\ Sheet.cells[at] = (IF url # None THEN "Modrinth" ELSE "")
                    /\ (at \in DOMAIN Sheet.hyperlink) = (url # None)
                    /\ url # None =>
                          /\ Sheet.hyperlink[at] = url[1]
                          /\ Sheet.style[at] = "Hyperlink"

C9_Witness ==
    /\ Finished
    /\ \E i, j \in 1..Len(mods) :
          /\ HasProject(mods[i])
          /\ ~Present(ProjectOf(mods[i]), "slug")
          /\ Present(ProjectOf(mods[i]), "id")
          /\ HasProject(mods[j])
          /\ ~Present(ProjectOf(mods[j]), "slug")
          /\ ~Present(ProjectOf(mods[j]), "id")

\* C10: the Mod Name is the project's title, else the entry's name, else its
\* file, else "", each tried only when the one before gave nothing; without
\* project the chain starts at the name.
C10_DisplayNameFallback ==
    Finished =>
        \A i \in 1..Len(mods) :
            LET m == mods[i]
            IN  Cell(i + 1, 1) =
                    (IF HasProject(m) /\ Present(ProjectOf(m), "title")
                     THEN ProjectOf(m)["title"][1]
                     ELSE IF Present(m, "name") THEN m["name"][1]
                     ELSE IF Present(m, "file") THEN m["file"][1]
                     ELSE "")

C10_Witness ==
    /\ Finished
    /\ \E i, j \in 1..Len(mods) :
          /\ HasProject(mods[i])
          /\ ~Present(ProjectOf(mods[i]), "title")
          /\ Present(mods[i], "name")
          /\ ~HasProject(mods[j])
          /\ ~Present(mods[j], "name")
          /\ Present(mods[j], "file")

====
